---- MODULE Spec2Model ----
(***************************************************************************)
(* A model of fast-slic.cpp: the SLIC driver fast_slic_iterate (the        *)
(* cluster-oriented assignment kernel and the update kernel), the pixel    *)
(* adjacency builder fast_slic_get_connectivity, the centroid KNN builder  *)
(* fast_slic_knn_connectivity and the two mask utilities.                  *)
(*                                                                         *)
(* A uint32_t assignment word is kept as the record [hi, lo] of its two    *)
(* 16-bit halves (TLC's integers are 32-bit signed): unsigned comparison   *)
(* of words is the lexicographic comparison of (hi, lo).                   *)
(***************************************************************************)
EXTENDS Integers, Sequences, FiniteSets, TLC

VARIABLES
    context,                \* Context: H, W, K, S, image, quantize_level, cache, max_iter, workers
    clusters,               \* Cluster[K]
    assignment,             \* uint32_t[H * W], words as [hi, lo]
    pc,                     \* position of the calling thread
    iter,                   \* the driver's loop counter i
    cluster_sorted_tuples,  \* the Morton-sorted cluster numbers
    task,                   \* per worker: position inside the parallel cluster loop
    upd,                    \* slic_update_clusters: shared and per-worker accumulators
    conn,                   \* Connectivity: num_nodes, num_neighbors, neighbors
    hashtable,              \* get_connectivity: uint32_t[K], each word as the set of its set bits
    scan,                   \* get_connectivity: the loop variables of the scan
    knn_todo,               \* knn_connectivity: the iterations of the parallel loop not yet run
    mask,                   \* uint8_t[H * W]
    cluster_densities,      \* uint8_t[K]
    result                  \* uint8_t[H * W]

vars == <<context, clusters, assignment, pc, iter, cluster_sorted_tuples, task, upd,
          conn, hashtable, scan, knn_todo, mask, cluster_densities, result>>

iterate_vars == <<iter, cluster_sorted_tuples, task, upd>>
conn_vars == <<conn, hashtable, scan>>
mask_vars == <<mask, cluster_densities, result>>

----------------------------------------------------------------------------
\* Bounds of the model

MaxWorkers == 2
MaxIter == 2

----------------------------------------------------------------------------
\* Integer helpers

Pow2(n) == 2 ^ n
U16 == Pow2(16)
Sentinel16 == U16 - 1

fast_abs(v) == IF v < 0 THEN -v ELSE v
my_max(a, b) == IF a > b THEN a ELSE b
my_min(a, b) == IF a < b THEN a ELSE b

\* (int16_t)sqrt(n) for n >= 0
IntSqrt(n) == CHOOSE r \in 0..n : r * r <= n /\ (r + 1) * (r + 1) > n

\* round_int(n, d): n / d rounded to nearest, ties away from zero (n >= 0, d > 0)
round_int(n, d) == (2 * n + d) \div (2 * d)

Word(hi, lo) == [hi |-> hi, lo |-> lo]
WordGT(a, b) == a.hi > b.hi \/ (a.hi = b.hi /\ a.lo > b.lo)
Unassigned == Word(Sentinel16, Sentinel16)

----------------------------------------------------------------------------
\* Inputs of fast_slic_iterate

IterShapes == { [H |-> 1, W |-> 4, K |-> 2], [H |-> 2, W |-> 2, K |-> 2] }
PixelColors == { <<0, 0, 0>>, <<255, 255, 255>> }
\* images over PixelColors in which at most one pixel is not black
Images(shape) ==
    { px \in [0 .. (shape.H * shape.W - 1) -> PixelColors] :
        Cardinality({ p \in 0 .. (shape.H * shape.W - 1) : px[p] # <<0, 0, 0>> }) <= 1 }
ClusterColors == { <<1, 0, 0>>, <<255, 255, 2>> }
QuantizeLevels == { 0, 7 }
\* spatial cost per unit of Manhattan distance: cache[m] = min(0xFFFF, slope * m)
CacheSlopes == { 1280 }

Pixels(ctx) == 0 .. (ctx.H * ctx.W - 1)
ClusterIds(ctx) == 0 .. (ctx.K - 1)
Workers(ctx) == 0 .. (ctx.num_workers - 1)

FlatImage(px, h, w) == [b \in 0 .. (3 * h * w - 1) |-> px[b \div 3][(b % 3) + 1]]

MakeCache(slope, s) == [m \in 0 .. (2 * s) |-> my_min(Sentinel16, slope * m)]

MakeContext(shape, px, q, slope, mi, nw) ==
    LET s == IntSqrt((shape.H * shape.W) \div shape.K)
    IN  [H |-> shape.H, W |-> shape.W, K |-> shape.K, S |-> s,
         image |-> FlatImage(px, shape.H, shape.W),
         quantize_level |-> q,
         spatial_normalize_cache |-> MakeCache(slope, s),
         max_iter |-> mi, num_workers |-> nw]

MakeClusters(shape, pos, col) ==
    [k \in 0 .. (shape.K - 1) |->
        [number |-> k, y |-> pos[k][1], x |-> pos[k][2],
         r |-> col[k][1], g |-> col[k][2], b |-> col[k][3], num_members |-> 0]]

----------------------------------------------------------------------------
\* Assignment kernel

get_assignment_value(cluster, image_, base_index, spatial_dist, quantize_level_) ==
    LET img_base_index == 3 * base_index
        r == image_[img_base_index]
        g == image_[img_base_index + 1]
        b == image_[img_base_index + 2]
        color_dist == ((fast_abs(r - cluster.r) + fast_abs(g - cluster.g) + fast_abs(b - cluster.b))
                        * Pow2(quantize_level_)) % U16
    IN  Word((color_dist + spatial_dist) % U16, cluster.number)

\* Morton code of the cell (y / S, x / S)
RECURSIVE Morton(_, _)
Morton(a, b) == IF a = 0 /\ b = 0 THEN 0
                ELSE 2 * (a % 2) + (b % 2) + 4 * Morton(a \div 2, b \div 2)
get_sort_value(y, x, s) == Morton(y \div s, x \div s)

\* std::sort of the ZOrderTuples: by score, then by cluster
SortedClusters(ctx, cl) ==
    LET key(k) == get_sort_value(cl[k].y, cl[k].x, ctx.S)
        before(a, b) == key(a) < key(b) \/ (key(a) = key(b) /\ a < b)
        rank(k) == 1 + Cardinality({ a \in ClusterIds(ctx) : before(a, k) })
    IN  [n \in 1 .. ctx.K |-> CHOOSE k \in ClusterIds(ctx) : rank(k) = n]

\* schedule(static): n iterations in contiguous chunks over nw threads
ChunkLo(w, n, nw) ==
    LET q == n \div nw
        t == n % nw
    IN  IF w < t THEN w * (q + 1) ELSE t * (q + 1) + (w - t) * q
ChunkHi(w, n, nw) ==
    LET q == n \div nw
        t == n % nw
    IN  ChunkLo(w, n, nw) + (IF w < t THEN q + 1 ELSE q)

TaskCluster(w) == clusters[cluster_sorted_tuples[task[w].idx + 1]]
TaskRunning(w) == task[w].idx < ChunkHi(w, context.K, context.num_workers)

\* the window of a cluster (lines 63-64)
y_lo_of(ctx, cluster) == my_max(0, cluster.y - ctx.S)
y_hi_of(ctx, cluster) == my_min(ctx.H, cluster.y + ctx.S + 1)
x_lo_of(ctx, cluster) == my_max(0, cluster.x - ctx.S)
x_hi_of(ctx, cluster) == my_min(ctx.W, cluster.x + ctx.S + 1)

TaskIdle(idx) ==
    [idx |-> idx, i |-> 0, j |-> 0, current_manhattan |-> 0, row_first_manhattan |-> 0,
     pending |-> FALSE]

\* the loop variables at the first pixel of row i: "current_manhattan = row_first_manhattan--"
\* above the centre row (line 68), "row_first_manhattan++" from it on (line 89)
EnterRow(ctx, cluster, idx, i, row_first_manhattan) ==
    [idx |-> idx, i |-> i, j |-> x_lo_of(ctx, cluster),
     current_manhattan |-> row_first_manhattan,
     row_first_manhattan |-> IF i < cluster.y THEN (row_first_manhattan - 1) % U16
                             ELSE (row_first_manhattan + 1) % U16,
     pending |-> FALSE]

\* lines 59-66: the task takes the cluster at sorted index idx, if its chunk holds one
EnterCluster(ctx, cl, sorted, idx, chunk_hi) ==
    IF idx >= chunk_hi THEN TaskIdle(idx)
    ELSE LET cluster == cl[sorted[idx + 1]]
         IN  EnterRow(ctx, cluster, idx, y_lo_of(ctx, cluster),
                      (cluster.y - y_lo_of(ctx, cluster)) + (cluster.x - x_lo_of(ctx, cluster)))

\* the task leaves pixel (i, j): the inner loops' j++ with current_manhattan-- left of
\* the centre column and current_manhattan++ from it on, then the row loops' i++
Advance(ctx, cl, sorted, t, chunk_hi) ==
    LET cluster == cl[sorted[t.idx + 1]]
        cm == IF t.j < cluster.x THEN (t.current_manhattan - 1) % U16
              ELSE (t.current_manhattan + 1) % U16
    IN  IF t.j + 1 < x_hi_of(ctx, cluster)
        THEN [t EXCEPT !.j = t.j + 1, !.current_manhattan = cm, !.pending = FALSE]
        ELSE IF t.i + 1 < y_hi_of(ctx, cluster)
        THEN EnterRow(ctx, cluster, t.idx, t.i + 1, t.row_first_manhattan)
        ELSE EnterCluster(ctx, cl, sorted, t.idx + 1, chunk_hi)

\* lines 71-73 (and 80-82, 92-94, 101-103)
TaskBaseIndex(w) == context.W * task[w].i + task[w].j
TaskCandidate(w) ==
    get_assignment_value(TaskCluster(w), context.image, TaskBaseIndex(w),
                         context.spatial_normalize_cache[task[w].current_manhattan],
                         context.quantize_level)
TaskAdvance(w) ==
    Advance(context, clusters, cluster_sorted_tuples, task[w],
            ChunkHi(w, context.K, context.num_workers))

ConnNone == [num_nodes |-> 0, num_neighbors |-> << >>, neighbors |-> << >>]
ScanIdle == [i |-> 0, j |-> 0, step |-> 0, source |-> 0, num_source_neighbors |-> 0,
             oob |-> FALSE, overflow |-> FALSE]

UpdIdle == [num_cluster_members |-> << >>, cluster_acc_vec |-> << >>,
            local_num_cluster_members |-> << >>, local_acc_vec |-> << >>, wpc |-> << >>]

\* lines 32-48: fill with 0xFFFFFFFF, sort the clusters, enter the parallel loop
AssignInit ==
    /\ pc = "assign_init"
    /\ assignment' = [p \in Pixels(context) |-> Unassigned]
    /\ cluster_sorted_tuples' = SortedClusters(context, clusters)
    /\ task' = [w \in Workers(context) |->
                   EnterCluster(context, clusters, SortedClusters(context, clusters),
                                ChunkLo(w, context.K, context.num_workers),
                                ChunkHi(w, context.K, context.num_workers))]
    /\ pc' = "assign_par"
    /\ UNCHANGED <<context, clusters, iter, upd>>
    /\ UNCHANGED <<conn_vars, knn_todo, mask_vars>>

\* the read and the comparison of "if (assignment[base_index] > assignment_val)"
TaskRead(w) ==
    /\ pc = "assign_par"
    /\ TaskRunning(w)
    /\ ~task[w].pending
    /\ task' = [task EXCEPT ![w] =
                   IF WordGT(assignment[TaskBaseIndex(w)], TaskCandidate(w))
                   THEN [@ EXCEPT !.pending = TRUE]
                   ELSE TaskAdvance(w)]
    /\ UNCHANGED <<context, clusters, assignment, pc, iter, cluster_sorted_tuples, upd>>
    /\ UNCHANGED <<conn_vars, knn_todo, mask_vars>>

\* the store "assignment[base_index] = assignment_val"
TaskWrite(w) ==
    /\ pc = "assign_par"
    /\ TaskRunning(w)
    /\ task[w].pending
    /\ assignment' = [assignment EXCEPT ![TaskBaseIndex(w)] = TaskCandidate(w)]
    /\ task' = [task EXCEPT ![w] = TaskAdvance(w)]
    /\ UNCHANGED <<context, clusters, pc, iter, cluster_sorted_tuples, upd>>
    /\ UNCHANGED <<conn_vars, knn_todo, mask_vars>>

\* a mask that keeps the score: "&= 0xFFFFFFFF"
DropLeadingBytes_keep(word) == word

\* "assignment[i * W + j] &= 0x0000FFFF"
DropLeadingBytes(word) == Word(0, word.lo)

\* lines 118-122, after the loop's barrier: drop the leading 2 bytes
AssignMask ==
    /\ pc = "assign_par"
    /\ \A w \in Workers(context) : ~TaskRunning(w)
    /\ assignment' = [p \in Pixels(context) |-> DropLeadingBytes(assignment[p])]
    /\ pc' = "update_init"
    /\ UNCHANGED <<context, clusters, iter, cluster_sorted_tuples, task, upd>>
    /\ UNCHANGED <<conn_vars, knn_todo, mask_vars>>

----------------------------------------------------------------------------
\* Update kernel

Zeros(n) == [x \in 0 .. (n - 1) |-> 0]

\* the pixels of worker w's share of the collapsed (i, j) loop
Slice(ctx, w) ==
    { p \in Pixels(ctx) : /\ ChunkLo(w, ctx.H * ctx.W, ctx.num_workers) <= p
                          /\ p < ChunkHi(w, ctx.H * ctx.W, ctx.num_workers) }

\* (cluster_no_t)(assignment[base_index])
cluster_no_of(word) == word.lo

\* what pixel base_index adds to accumulator slot dim of its cluster
PixelTerm(ctx, base_index, dim) ==
    CASE dim = 0 -> base_index \div ctx.W
      [] dim = 1 -> base_index % ctx.W
      [] OTHER   -> ctx.image[3 * base_index + (dim - 2)]

SumOver(set, f(_)) ==
    LET RECURSIVE Go(_)
        Go(rest) == IF rest = {} THEN 0
                    ELSE LET e == CHOOSE e \in rest : TRUE IN f(e) + Go(rest \ {e})
    IN  Go(set)

\* lines 160-174 over one worker's slice
LocalCount(ctx, asg, w, k) ==
    Cardinality({ p \in Slice(ctx, w) : cluster_no_of(asg[p]) # Sentinel16 /\ cluster_no_of(asg[p]) = k })
LocalAcc(ctx, asg, w, k, dim) ==
    LET term(p) == PixelTerm(ctx, p, dim)
    IN  SumOver({ p \in Slice(ctx, w) : cluster_no_of(asg[p]) # Sentinel16 /\ cluster_no_of(asg[p]) = k }, term)

\* lines 143-147
UpdateInit ==
    /\ pc = "update_init"
    /\ upd' = [num_cluster_members |-> Zeros(context.K),
               cluster_acc_vec |-> Zeros(5 * context.K),
               local_num_cluster_members |-> [w \in Workers(context) |-> Zeros(context.K)],
               local_acc_vec |-> [w \in Workers(context) |-> Zeros(5 * context.K)],
               wpc |-> [w \in Workers(context) |-> "scan"]]
    /\ pc' = "update_par"
    /\ UNCHANGED <<context, clusters, assignment, iter, cluster_sorted_tuples, task>>
    /\ UNCHANGED <<conn_vars, knn_todo, mask_vars>>

\* lines 151-174: a worker fills its private accumulators from its slice
UpdateAccumulate(w) ==
    /\ pc = "update_par"
    /\ upd.wpc[w] = "scan"
    /\ upd' = [upd EXCEPT
                 !.local_num_cluster_members[w] =
                     [k \in ClusterIds(context) |-> LocalCount(context, assignment, w, k)],
                 !.local_acc_vec[w] =
                     [x \in 0 .. (5 * context.K - 1) |->
                         LocalAcc(context, assignment, w, x \div 5, x % 5)],
                 !.wpc[w] = "merge"]
    /\ UNCHANGED <<context, clusters, assignment, pc, iter, cluster_sorted_tuples, task>>
    /\ UNCHANGED <<conn_vars, knn_todo, mask_vars>>

\* a merge that stores instead of adding: "num_cluster_members[k] = local_num_cluster_members[k]"
UpdateMerge_store(w) ==
    /\ pc = "update_par"
    /\ upd.wpc[w] = "merge"
    /\ upd' = [upd EXCEPT
                 !.cluster_acc_vec =
                     [x \in 0 .. (5 * context.K - 1) |-> @[x] + upd.local_acc_vec[w][x]],
                 !.num_cluster_members =
                     [k \in ClusterIds(context) |-> upd.local_num_cluster_members[w][k]],
                 !.wpc[w] = "done"]
    /\ UNCHANGED <<context, clusters, assignment, pc, iter, cluster_sorted_tuples, task>>
    /\ UNCHANGED <<conn_vars, knn_todo, mask_vars>>

\* lines 176-186: the critical section
UpdateMerge(w) ==
    /\ pc = "update_par"
    /\ upd.wpc[w] = "merge"
    /\ upd' = [upd EXCEPT
                 !.cluster_acc_vec =
                     [x \in 0 .. (5 * context.K - 1) |-> @[x] + upd.local_acc_vec[w][x]],
                 !.num_cluster_members =
                     [k \in ClusterIds(context) |-> @[k] + upd.local_num_cluster_members[w][k]],
                 !.wpc[w] = "done"]
    /\ UNCHANGED <<context, clusters, assignment, pc, iter, cluster_sorted_tuples, task>>
    /\ UNCHANGED <<conn_vars, knn_todo, mask_vars>>

\* lines 190-204 for one cluster
UpdatedCluster(cluster, num_current_members, acc, k) ==
    IF num_current_members = 0
    THEN [cluster EXCEPT !.num_members = 0]
    ELSE [cluster EXCEPT !.num_members = num_current_members,
                         !.y = round_int(acc[5 * k + 0], num_current_members),
                         !.x = round_int(acc[5 * k + 1], num_current_members),
                         !.r = round_int(acc[5 * k + 2], num_current_members),
                         !.g = round_int(acc[5 * k + 3], num_current_members),
                         !.b = round_int(acc[5 * k + 4], num_current_members)]

\* lines 190-206, then the driver's loop (lines 231-239)
UpdateFinish ==
    /\ pc = "update_par"
    /\ \A w \in Workers(context) : upd.wpc[w] = "done"
    /\ clusters' = [k \in ClusterIds(context) |->
                      UpdatedCluster(clusters[k], upd.num_cluster_members[k], upd.cluster_acc_vec, k)]
    /\ upd' = UpdIdle
    /\ iter' = iter + 1
    /\ pc' = IF iter + 1 < context.max_iter THEN "assign_init" ELSE "done"
    /\ UNCHANGED <<context, assignment, cluster_sorted_tuples, task>>
    /\ UNCHANGED <<conn_vars, knn_todo, mask_vars>>

----------------------------------------------------------------------------
\* fast_slic_iterate

Init ==
    /\ \E shape \in IterShapes :
         /\ \E px \in Images(shape),
               q \in QuantizeLevels, slope \in CacheSlopes, nw \in 1 .. MaxWorkers :
                context = MakeContext(shape, px, q, slope, MaxIter, nw)
         /\ \E pos \in [0 .. (shape.K - 1) -> (0 .. (shape.H - 1)) \X (0 .. (shape.W - 1))],
               col \in [0 .. (shape.K - 1) -> ClusterColors] :
                /\ \A a, b \in 0 .. (shape.K - 1) : a # b => pos[a] # pos[b]
                /\ clusters = MakeClusters(shape, pos, col)
         /\ assignment = [p \in 0 .. (shape.H * shape.W - 1) |-> Word(0, 0)]
    /\ pc = "assign_init"
    /\ iter = 0
    /\ cluster_sorted_tuples = << >>
    /\ task = << >>
    /\ upd = UpdIdle
    /\ conn = ConnNone /\ hashtable = << >> /\ scan = ScanIdle /\ knn_todo = {}
    /\ mask = << >> /\ cluster_densities = << >> /\ result = << >>

Next ==
    \/ AssignInit
    \/ \E w \in Workers(context) : TaskRead(w)
    \/ \E w \in Workers(context) : TaskWrite(w)
    \/ AssignMask
    \/ UpdateInit
    \/ \E w \in Workers(context) : UpdateAccumulate(w)
    \/ \E w \in Workers(context) : UpdateMerge(w)
    \/ UpdateFinish

Spec == Init /\ [][Next]_vars

----------------------------------------------------------------------------
\* Properties of the assignment and update kernels

PixelY(ctx, p) == p \div ctx.W
PixelX(ctx, p) == p % ctx.W
Manhattan(ctx, cluster, p) ==
    fast_abs(PixelY(ctx, p) - cluster.y) + fast_abs(PixelX(ctx, p) - cluster.x)
InWindow(ctx, cluster, p) ==
    /\ fast_abs(PixelY(ctx, p) - cluster.y) <= ctx.S
    /\ fast_abs(PixelX(ctx, p) - cluster.x) <= ctx.S
Covering(ctx, cl, p) == { k \in ClusterIds(ctx) : InWindow(ctx, cl[k], p) }
ColorL1(ctx, cluster, p) ==
    fast_abs(ctx.image[3 * p] - cluster.r) + fast_abs(ctx.image[3 * p + 1] - cluster.g)
        + fast_abs(ctx.image[3 * p + 2] - cluster.b)
\* D(p, c) of the specification, as an unbounded integer
TrueD(ctx, cluster, p) ==
    ColorL1(ctx, cluster, p) * Pow2(ctx.quantize_level)
        + ctx.spatial_normalize_cache[Manhattan(ctx, cluster, p)]
\* the candidate word cluster k offers to pixel p
Offered(ctx, cl, k, p) ==
    get_assignment_value(cl[k], ctx.image, p,
                         ctx.spatial_normalize_cache[Manhattan(ctx, cl[k], p)], ctx.quantize_level)
\* the low 16 bits of the minimum of all candidates offered to p (0xFFFF if there is none)
MinOfferedLabel(ctx, cl, p) ==
    IF Covering(ctx, cl, p) = {} THEN Sentinel16
    ELSE CHOOSE k \in Covering(ctx, cl, p) :
            \A k2 \in Covering(ctx, cl, p) : ~WordGT(Offered(ctx, cl, k, p), Offered(ctx, cl, k2, p))
\* the smallest cluster number among the clusters of minimal D(p, c)
ArgMinD(ctx, cl, p) ==
    CHOOSE k \in Covering(ctx, cl, p) :
        \A k2 \in Covering(ctx, cl, p) :
            \/ TrueD(ctx, cl[k], p) < TrueD(ctx, cl[k2], p)
            \/ (TrueD(ctx, cl[k], p) = TrueD(ctx, cl[k2], p) /\ k <= k2)

\* the assignment step has run and the clusters are still the ones it read
AfterAssign == pc \in {"update_init", "update_par"}

\* C1: whatever the number of workers and the interleaving of the cluster tasks,
\* every assignment word ends as the minimum of all candidates offered to it,
\* as in a one-worker run.
C1_LabelsAreMinOfCandidates ==
    AfterAssign =>
        \A p \in Pixels(context) : assignment[p].lo = MinOfferedLabel(context, clusters, p)

\* C2: after an assignment step with one worker, every covered pixel carries the
\* number of the cluster minimizing D(p, c) = (L1 << quantize_level) + cache[|dy|+|dx|]
\* over the clusters whose window contains it, the smallest number winning ties.
C2_LabelIsArgMinD ==
    (AfterAssign /\ context.num_workers = 1) =>
        \A p \in Pixels(context) :
            Covering(context, clusters, p) # {} =>
                assignment[p].lo = ArgMinD(context, clusters, p)

\* C3: the high 16 bits of a candidate word are
\* min(0xFFFF, min(0xFFFF, L1 << quantize_level) + spatial_cost): saturated, never wrapped.
C3_CandidateSaturates ==
    \A w \in DOMAIN task :
        (pc = "assign_par" /\ TaskRunning(w)) =>
            TaskCandidate(w).hi =
                my_min(Sentinel16,
                       my_min(Sentinel16,
                              ColorL1(context, TaskCluster(w), TaskBaseIndex(w))
                                  * Pow2(context.quantize_level))
                       + context.spatial_normalize_cache[task[w].current_manhattan])

\* C4: after every assignment step each word has its high 16 bits zero and its low
\* 16 bits a cluster number in [0, K) or 0xFFFF, and it is 0xFFFF exactly for the
\* pixels that lie in no cluster's window.
C4_LabelsValid ==
    /\ (AfterAssign \/ (iter > 0 /\ pc \in {"assign_init", "done"})) =>
         \A p \in Pixels(context) :
            /\ assignment[p].hi = 0
            /\ assignment[p].lo \in ClusterIds(context) \cup {Sentinel16}
    /\ AfterAssign =>
         \A p \in Pixels(context) :
            assignment[p].lo = Sentinel16 <=> Covering(context, clusters, p) = {}

C4_Witness ==
    /\ pc = "update_init"
    /\ iter = 1
    /\ context.num_workers = 2
    /\ \E p \in Pixels(context) : assignment[p] = Word(0, Sentinel16)
    /\ \E p \in Pixels(context) : assignment[p] = Word(0, 1)
    /\ \E p \in Pixels(context) : Cardinality(Covering(context, clusters, p)) = 2

\* C5: after every update step clusters[k].num_members is the number of pixels
\* labeled k, for every number of workers and every merge order; pixels labeled
\* 0xFFFF are counted for no cluster.
UpdateDone == iter > 0 /\ pc \in {"assign_init", "done"}
MembersTotal(cl, ids) ==
    LET RECURSIVE Go(_)
        Go(rest) == IF rest = {} THEN 0
                    ELSE LET k == CHOOSE k \in rest : TRUE IN cl[k].num_members + Go(rest \ {k})
    IN  Go(ids)
C5_NumMembersCountsLabels ==
    UpdateDone =>
        /\ \A k \in ClusterIds(context) :
              clusters[k].num_members =
                  Cardinality({ p \in Pixels(context) : assignment[p] = Word(0, k) })
        /\ MembersTotal(clusters, ClusterIds(context)) =
              Cardinality({ p \in Pixels(context) : assignment[p].lo # Sentinel16 })

C5_Witness ==
    /\ UpdateDone
    /\ context.num_workers = 2
    /\ \E p \in Pixels(context) : assignment[p].lo = Sentinel16
    /\ \E k \in ClusterIds(context) :
          /\ clusters[k].num_members >= 2
          /\ \A w \in Workers(context) :
                \E p \in Slice(context, w) : assignment[p] = Word(0, k)

----------------------------------------------------------------------------
\* fast_slic_get_connectivity

max_conn == 12

\* uint32_t arithmetic on words [hi, lo]
RECURSIVE Xor16(_, _)
Xor16(a, b) == IF a = 0 /\ b = 0 THEN 0
               ELSE ((a + b) % 2) + 2 * Xor16(a \div 2, b \div 2)
WordXor(a, b) == Word(Xor16(a.hi, b.hi), Xor16(a.lo, b.lo))
WordAdd(a, b) == Word((a.hi + b.hi + ((a.lo + b.lo) \div U16)) % U16, (a.lo + b.lo) % U16)
\* x * 0x1f1f1f1f: both halves of the multiplier are 0x1f1f
HashMulHalf == 7967
WordMulHash(x) ==
    Word((x.hi * HashMulHalf + x.lo * HashMulHalf + ((x.lo * HashMulHalf) \div U16)) % U16,
         (x.lo * HashMulHalf) % U16)
\* a 32-bit word modulo a small m
WordMod(a, m) == ((a.hi % m) * (U16 % m) + (a.lo % m)) % m
\* "x >= (uint32_t)K" for a word x and 0 < K < 65536
WordGE(a, k) == a.hi > 0 \/ a.lo >= k

symmetric_int_hash(x, y) ==
    WordAdd(WordXor(WordMulHash(x), y), WordXor(WordMulHash(y), x))

\* a slot of a "new uint32_t[max_conn]" array that was never written
Garbage == 0 - 1

\* the label images the scan is run on: all images of a small shape, and two-row
\* images in which one row carries one label and the other row max_conn + 2 distinct ones
ConnSmallShape == [H |-> 2, W |-> 3, K |-> 3]
ConnCombShape == [H |-> 2, W |-> max_conn + 2, K |-> max_conn + 3]
LabelWord(l) == Word(0, l)
CombImage(shape, hub_top, rot) ==
    [p \in 0 .. (shape.H * shape.W - 1) |->
        IF ((p \div shape.W) = 0) = hub_top THEN LabelWord(0)
        ELSE LabelWord(1 + (((p % shape.W) + rot) % shape.W))]
ConnInputs ==
    { [shape |-> ConnSmallShape, image |-> [p \in DOMAIN img |-> LabelWord(img[p])]] :
        img \in [0 .. (ConnSmallShape.H * ConnSmallShape.W - 1) ->
                    (0 .. (ConnSmallShape.K - 1)) \cup {Sentinel16}] }
    \cup
    { [shape |-> ConnCombShape, image |-> CombImage(ConnCombShape, hub_top, rot)] :
        hub_top \in BOOLEAN, rot \in {0, 1} }

\* lines 259-271
NewConnectivity(k) ==
    [num_nodes |-> k,
     num_neighbors |-> [c \in 0 .. (k - 1) |-> 0],
     neighbors |-> [c \in 0 .. (k - 1) |-> [t \in 0 .. (max_conn - 1) |-> Garbage]]]

\* the loop headers of lines 273-274: the pixel after (i, j), if the scan has one
HasNextPixel(ctx, sc) == sc.j + 1 < ctx.W - 1 \/ sc.i + 1 < ctx.H - 1
NextPixel(ctx, sc) ==
    IF sc.j + 1 < ctx.W - 1
    THEN [sc EXCEPT !.j = sc.j + 1, !.step = 0, !.source = 0, !.num_source_neighbors = 0]
    ELSE [sc EXCEPT !.i = sc.i + 1, !.j = 0, !.step = 0, !.source = 0, !.num_source_neighbors = 0]

ScanBaseIndex == context.W * scan.i + scan.j
\* the argument of the CONNECTIVITY_SEARCH the scan is at (lines 310-312)
ScanTargetIndex ==
    CASE scan.step = 1 -> ScanBaseIndex + 1
      [] scan.step = 2 -> ScanBaseIndex + context.W
      [] OTHER         -> ScanBaseIndex + context.W + 1
ScanTarget == assignment[ScanTargetIndex]
\* "if (target >= (uint32_t)K || source == target) continue"
ScanTargetIgnored == WordGE(ScanTarget, context.K) \/ scan.source = ScanTarget.lo
\* a cap that looks at the source's list only
ScanCapped_source_only == scan.num_source_neighbors >= max_conn

\* "if (num_source_neighbors >= max_conn || num_target_neighbors >= max_conn) continue"
ScanCapped ==
    scan.num_source_neighbors >= max_conn \/ conn.num_neighbors[ScanTarget.lo] >= max_conn
ScanHashIdx ==
    WordMod(symmetric_int_hash(LabelWord(scan.source), ScanTarget), context.K * 32)
\* lines 289-305: on a hash hit both lists are searched
ScanExists ==
    /\ (ScanHashIdx % 32) \in hashtable[ScanHashIdx \div 32]
    /\ \/ \E t \in 0 .. (scan.num_source_neighbors - 1) :
             conn.neighbors[scan.source][t] = ScanTarget.lo
       \/ \E t \in 0 .. (conn.num_neighbors[ScanTarget.lo] - 1) :
             conn.neighbors[ScanTarget.lo][t] = scan.source

\* lines 275-279: read the source pixel; a source that is no cluster ends the iteration.
\* num_neighbors is indexed by source before source is compared with K (line 277): for
\* a source >= K the read is outside the K-element array, and it either yields a value
\* that line 278 discards or faults.
ConnLoad ==
    /\ pc = "conn_load"
    /\ LET source == assignment[ScanBaseIndex]
           outside == WordGE(source, context.K)
       IN  IF outside
           THEN \/ IF HasNextPixel(context, scan)
                   THEN /\ scan' = [NextPixel(context, scan) EXCEPT !.oob = TRUE]
                        /\ pc' = "conn_load"
                        /\ hashtable' = hashtable
                   ELSE /\ scan' = [scan EXCEPT !.oob = TRUE]
                        /\ pc' = "conn_done"
                        /\ hashtable' = << >>
                \/ /\ scan' = [scan EXCEPT !.oob = TRUE]
                   /\ pc' = "conn_fault"
                   /\ hashtable' = hashtable
           ELSE /\ scan' = [scan EXCEPT !.source = source.lo,
                                        !.num_source_neighbors = conn.num_neighbors[source.lo],
                                        !.step = 1]
                /\ pc' = "conn_search"
                /\ hashtable' = hashtable
    /\ UNCHANGED <<context, clusters, assignment, conn, iterate_vars, knn_todo, mask_vars>>

\* lines 281-309: one CONNECTIVITY_SEARCH
ConnSearch ==
    /\ pc = "conn_search"
    /\ IF ScanTargetIgnored \/ ScanCapped \/ ScanExists
       THEN /\ scan' = [scan EXCEPT !.step = scan.step + 1]
            /\ UNCHANGED <<conn, hashtable>>
       ELSE LET target == ScanTarget.lo
                target_pos == conn.num_neighbors[target]
                source_pos == scan.num_source_neighbors
            IN  /\ conn' = [conn EXCEPT
                              !.neighbors[target][target_pos] = scan.source,
                              !.num_neighbors[target] = target_pos + 1,
                              !.neighbors[scan.source][source_pos] = target]
                /\ scan' = [scan EXCEPT !.num_source_neighbors = source_pos + 1,
                                        !.step = scan.step + 1,
                                        !.overflow = @ \/ target_pos >= max_conn
                                                       \/ source_pos >= max_conn]
                /\ hashtable' = [hashtable EXCEPT ![ScanHashIdx \div 32] = @ \cup {ScanHashIdx % 32}]
    /\ pc' = IF scan.step = 3 THEN "conn_store" ELSE "conn_search"
    /\ UNCHANGED <<context, clusters, assignment, iterate_vars, knn_todo, mask_vars>>

\* the pixel's iteration without line 313: the source's count is never written back
ConnStore_no_write_back ==
    /\ pc = "conn_store"
    /\ conn' = conn
    /\ IF HasNextPixel(context, scan)
       THEN /\ scan' = NextPixel(context, scan)
            /\ pc' = "conn_load"
            /\ hashtable' = hashtable
       ELSE /\ scan' = scan
            /\ pc' = "conn_done"
            /\ hashtable' = << >>
    /\ UNCHANGED <<context, clusters, assignment, iterate_vars, knn_todo, mask_vars>>

\* line 313, then the loop headers; after the last pixel lines 317-318
ConnStore ==
    /\ pc = "conn_store"
    /\ conn' = [conn EXCEPT !.num_neighbors[scan.source] = scan.num_source_neighbors]
    /\ IF HasNextPixel(context, scan)
       THEN /\ scan' = NextPixel(context, scan)
            /\ pc' = "conn_load"
            /\ hashtable' = hashtable
       ELSE /\ scan' = scan
            /\ pc' = "conn_done"
            /\ hashtable' = << >>
    /\ UNCHANGED <<context, clusters, assignment, iterate_vars, knn_todo, mask_vars>>

InitConn ==
    /\ \E inp \in ConnInputs :
         /\ context = inp.shape
         /\ assignment = inp.image
         /\ conn = NewConnectivity(inp.shape.K)
         /\ hashtable = [c \in 0 .. (inp.shape.K - 1) |-> {}]
    /\ scan = ScanIdle
    /\ pc = "conn_load"
    /\ clusters = << >>
    /\ iter = 0 /\ cluster_sorted_tuples = << >> /\ task = << >> /\ upd = UpdIdle
    /\ knn_todo = {}
    /\ mask = << >> /\ cluster_densities = << >> /\ result = << >>

NextConn == ConnLoad \/ ConnSearch \/ ConnStore

SpecConn == InitConn /\ [][NextConn]_vars

----------------------------------------------------------------------------
\* Properties of fast_slic_get_connectivity

NeighborList(k) == { conn.neighbors[k][t] : t \in 0 .. (conn.num_neighbors[k] - 1) }

\* the in-image pixels right of, below and diagonally below-right of p
ForwardPixels(ctx, p) ==
    { q \in Pixels(ctx) :
        /\ PixelY(ctx, q) - PixelY(ctx, p) \in {0, 1}
        /\ PixelX(ctx, q) - PixelX(ctx, p) \in {0, 1}
        /\ q # p }
\* some pixel labeled a has a pixel labeled b right of, below or diagonally below-right of it
ForwardAdjacent(ctx, img, a, b) ==
    \E p \in Pixels(ctx) :
        /\ img[p] = LabelWord(a)
        /\ \E q \in ForwardPixels(ctx, p) : img[q] = LabelWord(b)
Adjacent(ctx, img, a, b) == ForwardAdjacent(ctx, img, a, b) \/ ForwardAdjacent(ctx, img, b, a)
AdjacentClusters(ctx, img, a) == { b \in ClusterIds(ctx) \ {a} : Adjacent(ctx, img, a, b) }

\* C6: for a label image with labels in [0, K) in which no cluster has more than 12
\* distinct adjacent clusters, B is in neighbors[A] (A # B) iff some pixel, at any
\* position, is labeled A and has a pixel labeled B right of, below or diagonally
\* below-right of it, or the same with A and B exchanged.
C6_NeighborsIffAdjacent ==
    ( /\ pc = "conn_done"
      /\ \A p \in Pixels(context) : ~WordGE(assignment[p], context.K)
      /\ \A a \in ClusterIds(context) :
            Cardinality(AdjacentClusters(context, assignment, a)) <= max_conn )
    => \A a, b \in ClusterIds(context) :
          a # b => (b \in NeighborList(a) <=> Adjacent(context, assignment, a, b))

\* C8: at the end of the scan, if B is in neighbors[A] and both lists have room
\* (fewer than 12 entries), then A is in neighbors[B].
C8_SymmetricWithRoom ==
    pc = "conn_done" =>
        \A a, b \in ClusterIds(context) :
            ( /\ b \in NeighborList(a)
              /\ conn.num_neighbors[a] < max_conn
              /\ conn.num_neighbors[b] < max_conn )
            => a \in NeighborList(b)

C8_Witness ==
    /\ pc = "conn_done"
    /\ \E a, b \in ClusterIds(context) :
          /\ a < b
          /\ b \in NeighborList(a)
          /\ a \in NeighborList(b)
          /\ conn.num_neighbors[a] = 2
          /\ conn.num_neighbors[b] < max_conn
    /\ \E p \in Pixels(context) : assignment[p] = LabelWord(Sentinel16)

\* C9: during the scan and in its result num_neighbors[k] <= 12 for every k, no entry
\* is written at a position >= 12, and a pair whose source or target list already
\* holds 12 entries is dropped without changing either list.
C9_CountsCapped ==
    /\ \A k \in ClusterIds(context) : conn.num_neighbors[k] <= max_conn
    /\ scan.num_source_neighbors <= max_conn
    /\ ~scan.overflow
C9_FullListDrops ==
    ( /\ pc = "conn_search"
      /\ ~ScanTargetIgnored
      /\ \/ scan.num_source_neighbors >= max_conn
         \/ conn.num_neighbors[ScanTarget.lo] >= max_conn )
    => /\ conn' = conn
       /\ scan'.num_source_neighbors = scan.num_source_neighbors
C9_BoundedDegree == [](C9_CountsCapped) /\ [][C9_FullListDrops]_vars

\* a list holds 12 entries and a scanned pair of its cluster was dropped
C9_Witness ==
    /\ pc = "conn_done"
    /\ \E k \in ClusterIds(context) :
          /\ conn.num_neighbors[k] = max_conn
          /\ \E b \in ClusterIds(context) \ {k} :
                /\ Adjacent(context, assignment, k, b)
                /\ b \notin NeighborList(k)
                /\ k \notin NeighborList(b)
                /\ conn.num_neighbors[b] < max_conn

----------------------------------------------------------------------------
\* fast_slic_knn_connectivity

\* the indices at which the scan has touched num_neighbors and neighbors so far are all
\* inside [0, K), and every entry of every list is a cluster number
ConnListsValid ==
    pc \in {"conn_load", "conn_search", "conn_store", "conn_done", "conn_fault"}
    => \A k \in ClusterIds(context) : \A b \in NeighborList(k) : b \in ClusterIds(context)

\* C11: on a label image over [0, K) and the sentinel 0xFFFF, pairs touching a sentinel
\* pixel are ignored: no neighbor list holds a value >= K, and the scan never reads or
\* writes num_neighbors or neighbors at an index outside [0, K), also when the source
\* pixel carries the sentinel.
C11_SentinelPairsIgnored ==
    /\ ConnListsValid
    /\ ~scan.oob
    /\ pc # "conn_fault"


MaxNeighbors == 3

KnnShapes == { [H |-> 2, W |-> 4, K |-> 3] }

ceil_int(a, b) == (a + b - 1) \div b

RECURSIVE SetToSeqAsc(_)
SetToSeqAsc(set) ==
    IF set = {} THEN << >>
    ELSE LET m == CHOOSE m \in set : \A o \in set : m <= o
         IN  <<m>> \o SetToSeqAsc(set \ {m})

KnnNh(ctx) == ceil_int(ctx.H, ctx.S)
KnnNw(ctx) == ceil_int(ctx.W, ctx.S)

\* lines 326-330: the clusters filed in cell c, in the order of their push_back
s_cells(ctx, cl, c) ==
    SetToSeqAsc({ k \in ClusterIds(ctx) :
                    (cl[k].y \div ctx.S) * KnnNw(ctx) + (cl[k].x \div ctx.S) = c })

\* the ranges of the loops of lines 344-345
CellRowLo(ctx, cluster) == my_max((cluster.y \div ctx.S) - 3, 0)
CellRowHi(ctx, cluster) == my_min(KnnNh(ctx), (cluster.y \div ctx.S) + 3)
CellColLo(ctx, cluster) == my_max((cluster.x \div ctx.S) - 3, 0)
CellColHi(ctx, cluster) == my_min(KnnNw(ctx), (cluster.x \div ctx.S) + 3)

\* the clusters the loops of lines 344-346 present for cluster i, in their order
CandidatesAround(ctx, cl, i) ==
    LET rows == CellRowHi(ctx, cl[i]) - CellRowLo(ctx, cl[i])
        cols == CellColHi(ctx, cl[i]) - CellColLo(ctx, cl[i])
        cell(n) == (CellRowLo(ctx, cl[i]) + ((n - 1) \div cols)) * KnnNw(ctx)
                       + CellColLo(ctx, cl[i]) + ((n - 1) % cols)
        Go[n \in 0 .. (rows * cols)] ==
            IF n = 0 THEN << >> ELSE Go[n - 1] \o s_cells(ctx, cl, cell(n))
    IN  IF rows <= 0 \/ cols <= 0 THEN << >> ELSE Go[rows * cols]

\* The heap is kept as the set of its (distance, cluster) pairs; heap.front() is the
\* largest pair, pairs being ordered by distance and then by cluster address.
PairLess(a, b) == a[1] < b[1] \/ (a[1] = b[1] /\ a[2] < b[2])
HeapFront(heap) == CHOOSE m \in heap : \A o \in heap : o = m \/ PairLess(o, m)

\* lines 353-356
RECURSIVE PopWhileOver(_, _)
PopWhileOver(heap, num_neighbors) ==
    IF Cardinality(heap) > num_neighbors
    THEN PopWhileOver(heap \ {HeapFront(heap)}, num_neighbors)
    ELSE heap

\* lines 347-356 for one cluster_around
HeapOffer(cl, i, heap, around, num_neighbors) ==
    LET distance == fast_abs(cl[around].x - cl[i].x) + fast_abs(cl[around].y - cl[i].y)
    IN  IF around = i THEN heap
        ELSE IF heap # {} /\ HeapFront(heap)[1] <= distance THEN heap
        ELSE PopWhileOver(heap \cup {<<distance, around>>}, num_neighbors)

\* lines 343-359: the heap after all candidates of cluster i
KnnHeap(ctx, cl, i) ==
    LET cands == CandidatesAround(ctx, cl, i)
        Go[n \in 0 .. Len(cands)] ==
            IF n = 0 THEN {}
            ELSE HeapOffer(cl, i, Go[n - 1], cands[n], ctx.num_neighbors)
    IN  Go[Len(cands)]

\* the heap's array, largest pair first (one of the layouts a max-heap may have)
RECURSIVE HeapArray(_)
HeapArray(heap) ==
    IF heap = {} THEN << >>
    ELSE <<HeapFront(heap)>> \o HeapArray(heap \ {HeapFront(heap)})

\* lines 339-365: one iteration of the parallel loop
KnnQuery(i) ==
    /\ pc = "knn_par"
    /\ i \in knn_todo
    /\ LET arr == HeapArray(KnnHeap(context, clusters, i))
       IN  conn' = [conn EXCEPT
                      !.num_neighbors[i] = Len(arr),
                      !.neighbors[i] = [j \in 0 .. (Len(arr) - 1) |-> clusters[arr[j + 1][2]].number]]
    /\ knn_todo' = knn_todo \ {i}
    /\ UNCHANGED <<context, clusters, assignment, pc, iterate_vars, hashtable, scan, mask_vars>>

\* line 370, after the loop's barrier
KnnReturn ==
    /\ pc = "knn_par"
    /\ knn_todo = {}
    /\ pc' = "knn_done"
    /\ UNCHANGED <<context, clusters, assignment, iterate_vars, conn_vars, knn_todo, mask_vars>>

\* lines 323-336
InitKnn ==
    /\ \E shape \in KnnShapes :
         /\ \E nn \in 0 .. MaxNeighbors :
               context = [H |-> shape.H, W |-> shape.W, K |-> shape.K,
                          S |-> my_max(IntSqrt((shape.H * shape.W) \div shape.K), 1),
                          num_neighbors |-> nn]
         /\ \E pos \in [0 .. (shape.K - 1) -> (0 .. (shape.H - 1)) \X (0 .. (shape.W - 1))] :
               clusters = [k \in 0 .. (shape.K - 1) |-> [number |-> k, y |-> pos[k][1], x |-> pos[k][2]]]
         /\ conn = [num_nodes |-> shape.K,
                    num_neighbors |-> [c \in 0 .. (shape.K - 1) |-> Garbage],
                    neighbors |-> [c \in 0 .. (shape.K - 1) |-> << >>]]
         /\ knn_todo = 0 .. (shape.K - 1)
    /\ pc = "knn_par"
    /\ assignment = << >>
    /\ iter = 0 /\ cluster_sorted_tuples = << >> /\ task = << >> /\ upd = UpdIdle
    /\ hashtable = << >> /\ scan = ScanIdle
    /\ mask = << >> /\ cluster_densities = << >> /\ result = << >>

NextKnn == (\E i \in knn_todo : KnnQuery(i)) \/ KnnReturn

SpecKnn == InitKnn /\ [][NextKnn]_vars

\* Properties of fast_slic_knn_connectivity

CentroidDistance(cl, a, b) == fast_abs(cl[a].x - cl[b].x) + fast_abs(cl[a].y - cl[b].y)
\* the cell of cluster o is one the loops of cluster i visit
InScannedBlock(ctx, cl, i, o) ==
    /\ CellRowLo(ctx, cl[i]) <= cl[o].y \div ctx.S
    /\ cl[o].y \div ctx.S < CellRowHi(ctx, cl[i])
    /\ CellColLo(ctx, cl[i]) <= cl[o].x \div ctx.S
    /\ cl[o].x \div ctx.S < CellColHi(ctx, cl[i])
KnnList(i) == { conn.neighbors[i][t] : t \in DOMAIN conn.neighbors[i] }
\* no cluster left out of i's list is strictly closer to i than a cluster in it
KnnNearest(i) ==
    \A inside \in KnnList(i), outside \in (ClusterIds(context) \ {i}) \ KnnList(i) :
        CentroidDistance(clusters, i, outside) >= CentroidDistance(clusters, i, inside)

\* C7: when all other centroids lie within the scanned cell block, the list returned
\* for cluster i holds exactly min(k, K - 1) distinct clusters other than i, and they
\* are k nearest ones by L1 centroid distance.
C7_KnnListIsKNearest ==
    pc = "knn_done" =>
        \A i \in ClusterIds(context) :
            (\A o \in ClusterIds(context) \ {i} : InScannedBlock(context, clusters, i, o))
            => /\ conn.num_neighbors[i] = my_min(context.num_neighbors, context.K - 1)
               /\ Cardinality(KnnList(i)) = my_min(context.num_neighbors, context.K - 1)
               /\ i \notin KnnList(i)
               /\ KnnNearest(i)

----------------------------------------------------------------------------
\* fast_slic_get_mask_density and fast_slic_cluster_density_to_mask

MaskShape == [H |-> 2, W |-> 2, K |-> 2]
MaskValues == 0 .. 255

\* "cluster_no < (uint32_t)K"
WordLT(a, k) == a.hi = 0 /\ a.lo < k

\* lines 383-391
MaskSum(ctx, asg, mask_, k) ==
    LET term(p) == mask_[p]
    IN  SumOver({ p \in Pixels(ctx) : WordLT(asg[p], ctx.K) /\ asg[p].lo = k }, term)

\* a density that is the sum itself: line 394 without the division
fast_slic_get_mask_density_no_division(ctx, cl, asg, mask_) ==
    [k \in ClusterIds(ctx) |-> my_min(255, MaskSum(ctx, asg, mask_, k)) % 256]

\* lines 382-397
fast_slic_get_mask_density(ctx, cl, asg, mask_) ==
    [k \in ClusterIds(ctx) |->
        my_min(255, MaskSum(ctx, asg, mask_, k) \div my_max(cl[k].num_members, 1)) % 256]

\* lines 399-409
fast_slic_cluster_density_to_mask(ctx, cl, asg, densities) ==
    [p \in Pixels(ctx) |-> IF WordLT(asg[p], ctx.K) THEN densities[asg[p].lo] ELSE 0]

CallGetMaskDensity ==
    /\ pc = "mask_density"
    /\ cluster_densities' = fast_slic_get_mask_density(context, clusters, assignment, mask)
    /\ pc' = "mask_broadcast"
    /\ UNCHANGED <<context, clusters, assignment, iterate_vars, conn_vars, knn_todo, mask, result>>

CallClusterDensityToMask ==
    /\ pc = "mask_broadcast"
    /\ result' = fast_slic_cluster_density_to_mask(context, clusters, assignment, cluster_densities)
    /\ pc' = "mask_done"
    /\ UNCHANGED <<context, clusters, assignment, iterate_vars, conn_vars, knn_todo, mask,
                   cluster_densities>>

LabelCount(ctx, asg, k) == Cardinality({ p \in Pixels(ctx) : asg[p] = LabelWord(k) })

\* label images over [0, K) and the sentinel, constant masks, and clusters whose
\* num_members is the pixel count of their label or (stale) one more than it
InitMask ==
    /\ context = MaskShape
    /\ \E img \in [Pixels(MaskShape) -> (0 .. (MaskShape.K - 1)) \cup {Sentinel16}] :
          assignment = [p \in Pixels(MaskShape) |-> LabelWord(img[p])]
    /\ \E stale \in {0, 1} :
          clusters = [k \in ClusterIds(MaskShape) |->
                         [number |-> k, num_members |-> LabelCount(MaskShape, assignment, k) + stale]]
    /\ \E v \in MaskValues : mask = [p \in Pixels(MaskShape) |-> v]
    /\ cluster_densities = [k \in ClusterIds(MaskShape) |-> 0]
    /\ result = [p \in Pixels(MaskShape) |-> 0]
    /\ pc = "mask_density"
    /\ iter = 0 /\ cluster_sorted_tuples = << >> /\ task = << >> /\ upd = UpdIdle
    /\ conn = ConnNone /\ hashtable = << >> /\ scan = ScanIdle /\ knn_todo = {}

NextMask == CallGetMaskDensity \/ CallClusterDensityToMask

SpecMask == InitMask /\ [][NextMask]_vars

\* C10: with num_members equal to the pixel counts, get_mask_density on the constant
\* mask v followed by cluster_density_to_mask gives v at every pixel labeled in
\* [0, K) and 0 at every pixel labeled with the sentinel.
C10_ConstantMaskRoundTrip ==
    ( /\ pc = "mask_done"
      /\ \A k \in ClusterIds(context) :
            clusters[k].num_members = LabelCount(context, assignment, k) )
    => \A p \in Pixels(context) :
          result[p] = IF assignment[p].lo \in ClusterIds(context) THEN mask[p] ELSE 0

C10_Witness ==
    /\ pc = "mask_done"
    /\ \A k \in ClusterIds(context) :
          clusters[k].num_members = LabelCount(context, assignment, k)
    /\ \A p \in Pixels(context) : mask[p] = 255
    /\ \E p \in Pixels(context) : assignment[p] = LabelWord(Sentinel16) /\ result[p] = 0
    /\ \E k \in ClusterIds(context) : clusters[k].num_members = 2 /\ cluster_densities[k] = 255

====
